---- MODULE Spec2Model ----
(***************************************************************************)
(* Model of StockProject.py: a DCF valuation of one ticker, adjusted by a  *)
(* news-sentiment score.                                                   *)
(*                                                                         *)
(* Numbers.  Every Python number is an exact rational <<n, d>> with d > 0  *)
(* and gcd(n, d) = 1.  The three IEEE specials share the encoding with a   *)
(* zero denominator: <<1, 0>> is +inf, <<-1, 0>> is -inf, <<0, 0>> is NaN. *)
(* Python's None is the empty tuple.  Floating-point rounding is not       *)
(* modelled: the arithmetic is the exact arithmetic the code writes down.  *)
(***************************************************************************)
EXTENDS Integers, Sequences, FiniteSets, TLC

VARIABLES
    pc,                 \* position of the run in the program
    NEWS_API_KEY,       \* module constant of line 9, a configuration switch
    years, discount_rate, growth_rate,   \* arguments of discounted_cash_flow_analysis
    income_stmt, cashflow_stmt,          \* locals of calculate_fcf
    components,         \* ebit, depreciation, capex, wc_change of calculate_fcf
    fcf,                \* result of calculate_fcf, local of the valuation
    discounted_fcfs, discounted_terminal_value, intrinsic_value,
    info,               \* what company.info yielded
    market_cap, upside,
    dcf_result,         \* "unset", "None" or "tuple"
    response,           \* what requests.get yielded
    news, sentiment_score, adjusted_upside,
    trace,              \* observable steps of the run, in order
    fault,              \* the uncaught exception that ended the run, if any
    sg_statement, sg_labels, sg_col, sg_result   \* one call of safe_get

vars == <<pc, NEWS_API_KEY, years, discount_rate, growth_rate, income_stmt,
          cashflow_stmt, components, fcf, discounted_fcfs,
          discounted_terminal_value, intrinsic_value, info, market_cap,
          upside, dcf_result, response, news, sentiment_score,
          adjusted_upside, trace, fault, sg_statement, sg_labels, sg_col,
          sg_result>>

----------------------------------------------------------------------------
(* Bounds of the model                                                     *)

MaxYears == 3
MaxArticles == 2
MaxLabels == 2

----------------------------------------------------------------------------
(* Numbers                                                                 *)

None == <<>>
NaN == <<0, 0>>
Zero == <<0, 1>>
One == <<1, 1>>

Abs(x) == IF x < 0 THEN -x ELSE x

Sign(x) == IF x < 0 THEN -1 ELSE IF x > 0 THEN 1 ELSE 0

RECURSIVE GCD(_, _)
GCD(a, b) == IF b = 0 THEN a ELSE GCD(b, a % b)

Norm(n, d) ==
    IF d = 0 THEN <<Sign(n), 0>>
    ELSE LET g == GCD(Abs(n), Abs(d))
         IN  <<Sign(d) * (n \div g), Sign(d) * (d \div g)>>

Num(i) == <<i, 1>>

IsNone(x) == Len(x) = 0

IsNaN(x) == x = NaN

IsFinite(x) == x[2] # 0

RNeg(a) == <<-a[1], a[2]>>

RAdd(a, b) ==
    IF IsNaN(a) \/ IsNaN(b) THEN NaN
    ELSE IF ~IsFinite(a) /\ ~IsFinite(b) THEN (IF a = b THEN a ELSE NaN)
    ELSE IF ~IsFinite(a) THEN a
    ELSE IF ~IsFinite(b) THEN b
    ELSE LET l == a[2] * (b[2] \div GCD(a[2], b[2]))
         IN  Norm(a[1] * (l \div a[2]) + b[1] * (l \div b[2]), l)

RSub(a, b) == RAdd(a, RNeg(b))

RMul(a, b) ==
    IF ~IsFinite(a) \/ ~IsFinite(b) THEN Norm(a[1] * b[1], 0)
    ELSE LET g1 == GCD(Abs(a[1]), b[2])
             g2 == GCD(Abs(b[1]), a[2])
         IN  Norm((a[1] \div g1) * (b[1] \div g2), (a[2] \div g2) * (b[2] \div g1))

\* IEEE reciprocal: 1/0 is an infinity, 1/inf is 0
RInv(b) == IF IsNaN(b) THEN NaN ELSE IF b = Zero THEN <<1, 0>> ELSE Norm(b[2], b[1])

RDiv(a, b) == RMul(a, RInv(b))

RLt(a, b) ==
    IF IsNaN(a) \/ IsNaN(b) THEN FALSE
    ELSE IF ~IsFinite(a) /\ ~IsFinite(b) THEN a[1] < b[1]
    ELSE IF ~IsFinite(a) THEN a[1] < 0
    ELSE IF ~IsFinite(b) THEN b[1] > 0
    ELSE a[1] * b[2] < b[1] * a[2]

RLe(a, b) == IF IsNaN(a) \/ IsNaN(b) THEN FALSE ELSE ~RLt(b, a)

RECURSIVE RPow(_, _)
RPow(a, i) == IF i = 0 THEN One ELSE RMul(a, RPow(a, i - 1))

\* Python's sum(): left to right, starting from 0
RECURSIVE RSum(_)
RSum(s) == IF s = <<>> THEN Zero ELSE RAdd(RSum(SubSeq(s, 1, Len(s) - 1)), s[Len(s)])

Range(s) == {s[i] : i \in DOMAIN s}

Append2(s, a, b) == Append(Append(s, a), b)

----------------------------------------------------------------------------
(* Statement tables: row labels (index), period columns, one cell per      *)
(* label and period.                                                       *)

NoStatement == [columns |-> <<>>, index |-> {}, cell |-> [p \in {} |-> NaN]]

KeyError == <<"KeyError">>

IsRaise(x) == Len(x) = 1

\* safe_get, lines 12-16
safe_get_last_label(statement, possible_labels, col) ==
    LET present == {i \in DOMAIN possible_labels : possible_labels[i] \in statement.index}
    IN  IF present = {} THEN Zero
        ELSE LET i == CHOOSE j \in present : \A k \in present : k <= j
             IN  IF col \in Range(statement.columns)
                 THEN statement.cell[<<possible_labels[i], col>>]
                 ELSE KeyError

RECURSIVE safe_get(_, _, _)
safe_get(statement, possible_labels, col) ==
    IF possible_labels = <<>> THEN Zero
    ELSE IF Head(possible_labels) \in statement.index
         THEN IF col \in Range(statement.columns)
              THEN statement.cell[<<Head(possible_labels), col>>]
              ELSE KeyError
         ELSE safe_get(statement, Tail(possible_labels), col)

EbitLabels == <<"Operating Income", "EBIT">>
DepreciationLabels == <<"Depreciation", "Depreciation & Amortization">>
CapexLabels == <<"Capital Expenditures", "Capital expenditure">>
WcLabels == <<"Change in Working Capital", "Changes in working capital">>

NoComponents == [raised |-> FALSE, ebit |-> None, depreciation |-> None,
                 capex |-> None, wc_change |-> None, fcf |-> None]

Raised == [NoComponents EXCEPT !.raised = TRUE]

\* calculate_fcf, lines 23-30: the lookups and the sum, or the exception
\* that the handler of lines 41-43 turns into None
fcf_components_plus_capex(income, cashflow) ==
    IF income.columns = <<>> THEN Raised
    ELSE LET latest_year == income.columns[1]
             e == safe_get(income, EbitLabels, latest_year)
             d == safe_get(cashflow, DepreciationLabels, latest_year)
             c == safe_get(cashflow, CapexLabels, latest_year)
             w == safe_get(cashflow, WcLabels, latest_year)
         IN  IF IsRaise(e) \/ IsRaise(d) \/ IsRaise(c) \/ IsRaise(w) THEN Raised
             ELSE [raised |-> FALSE, ebit |-> e, depreciation |-> d, capex |-> c,
                   wc_change |-> w,
                   fcf |-> RSub(RAdd(RAdd(e, d), c), w)]

fcf_components(income, cashflow) ==
    IF income.columns = <<>> THEN Raised
    ELSE LET latest_year == income.columns[1]
             e == safe_get(income, EbitLabels, latest_year)
             d == safe_get(cashflow, DepreciationLabels, latest_year)
             c == safe_get(cashflow, CapexLabels, latest_year)
             w == safe_get(cashflow, WcLabels, latest_year)
         IN  IF IsRaise(e) \/ IsRaise(d) \/ IsRaise(c) \/ IsRaise(w) THEN Raised
             ELSE [raised |-> FALSE, ebit |-> e, depreciation |-> d, capex |-> c,
                   wc_change |-> w,
                   fcf |-> RSub(RSub(RAdd(e, d), c), w)]

----------------------------------------------------------------------------
(* discounted_cash_flow_analysis, lines 46-64                              *)

DefaultYears == 5
DefaultDiscountRate == Norm(10, 100)
DefaultGrowthRate == Norm(5, 100)

\* line 48
fcf_rejected(f) == IsNone(f) \/ RLe(f, Zero)

\* line 51
future_fcfs(f, g, n) == [i \in 1..n |-> RMul(f, RPow(RAdd(One, g), i))]

\* line 52
discount(future, r) == [i \in DOMAIN future |-> RDiv(future[i], RPow(RAdd(One, r), i))]

\* line 54
terminal_value_swapped(future, r, g) ==
    RDiv(RMul(future[Len(future)], RAdd(One, g)), RSub(g, r))

terminal_value(future, r, g) ==
    RDiv(RMul(future[Len(future)], RAdd(One, g)), RSub(r, g))

\* line 55
discount_terminal(tv, r, n) == RDiv(tv, RPow(RAdd(One, r), n))

\* lines 51-57 as one value: the discounted flows, the discounted terminal
\* value and their sum
dcf_values(f, n, r, g) ==
    LET future == future_fcfs(f, g, n)
        disc == discount(future, r)
        dtv == discount_terminal(terminal_value(future, r, g), r, n)
    IN  [discounted_fcfs |-> disc, discounted_terminal_value |-> dtv,
         intrinsic_value |-> RAdd(RSum(disc), dtv)]

\* A divisor of lines 52, 54 or 55 is zero: (1 + r)**i or r - g
ZeroDivisor(r, g) == RAdd(One, r) = Zero \/ RSub(r, g) = Zero

\* line 62
UpsideFactor == 100

upside_of(iv, mc) ==
    IF RLt(Zero, mc)
    THEN RMul(RDiv(RSub(iv, mc), mc), Num(UpsideFactor))
    ELSE Zero

----------------------------------------------------------------------------
(* get_security_news and analyze_sentiment, lines 67-92                    *)

NoKey == ""

MaxTaken == 5

\* articles[:5]
Take(s, n) == SubSeq(s, 1, IF Len(s) < n THEN Len(s) ELSE n)

ArticleRaises(a) == a.title = "absent" \/ a.description = "null"

\* line 81, one element: title + ". " + description
ArticleText(a) ==
    <<a.title, ". ", IF a.description = "absent" THEN "" ELSE a.description>>

NoResponse == [outcome |-> "none", status_code |-> 0, body |-> "none", articles |-> <<>>]

StatusOk == 200

\* lines 72-85, given what requests.get yielded
news_of_response_skipping_bad_articles(resp) ==
    IF resp.outcome = "raise" THEN <<>>
    ELSE IF resp.status_code # StatusOk THEN <<>>
    ELSE IF resp.body # "articles" THEN <<>>
    ELSE LET taken == Take(resp.articles, MaxTaken)
         IN  SelectSeq([i \in DOMAIN taken |-> ArticleText(taken[i])],
                       LAMBDA t : t[1] # "absent" /\ t[3] # "null")

news_of_response(resp) ==
    IF resp.outcome = "raise" THEN <<>>
    ELSE IF resp.status_code # StatusOk THEN <<>>
    ELSE IF resp.body # "articles" THEN <<>>
    ELSE LET taken == Take(resp.articles, MaxTaken)
         IN  IF \E i \in DOMAIN taken : ArticleRaises(taken[i]) THEN <<>>
             ELSE [i \in DOMAIN taken |-> ArticleText(taken[i])]

\* line 68
news_disabled_never(key) == FALSE

news_disabled(key) == key = NoKey

\* lines 87-92, given the polarity TextBlob gives each article
analyze_sentiment(news_list, sentiments) ==
    IF news_list = <<>> THEN Zero
    ELSE RDiv(RSum(sentiments), Num(Len(sentiments)))

\* line 113
SentimentWeight == 50

adjust(u, s) == RAdd(u, RMul(s, Num(SentimentWeight)))

----------------------------------------------------------------------------
(* What the external collaborators can yield                               *)

Latest == "2024"
Previous == "2023"

IncomeLabels == Range(EbitLabels)
CashflowLabels == Range(DepreciationLabels) \cup Range(CapexLabels) \cup Range(WcLabels)

IncomeValues == {Num(1), Num(2), NaN}
CashflowValues == {Num(1), NaN}

\* the figure a row shows for an older period differs from the latest one
Prior(v) == IF IsNaN(v) THEN v ELSE RAdd(v, Num(10))

StatementOf(cs, ix, v) ==
    [columns |-> cs, index |-> ix,
     cell |-> [p \in ix \X Range(cs) |-> IF p[2] = cs[1] THEN v[p[1]] ELSE Prior(v[p[1]])]]

StatementsOver(cs, labels, values) ==
    UNION {{StatementOf(cs, ix, v) : v \in [ix -> values]} : ix \in SUBSET labels}

\* columns of the income statement and of the cash-flow statement
ColumnChoices == {<<<< >>, << >>>>,
                  <<<<Latest>>, <<Latest>>>>,
                  <<<<Latest, Previous>>, <<Latest, Previous>>>>,
                  <<<<Latest, Previous>>, <<Previous>>>>}

NoInfo == [outcome |-> "none", has |-> FALSE, marketCap |-> None]

MarketCaps == {Num(-5), Zero, Num(7), Num(21), Num(42)}

Infos == {[outcome |-> "raise", has |-> FALSE, marketCap |-> None],
          [outcome |-> "dict", has |-> FALSE, marketCap |-> None],
          [outcome |-> "dict", has |-> TRUE, marketCap |-> None]}
         \cup {[outcome |-> "dict", has |-> TRUE, marketCap |-> m] : m \in MarketCaps}

Articles == [title : {"Rally", "absent"}, description : {"Strong quarter", "null", "absent"}]

ArticleLists == UNION {[1..n -> Articles] : n \in 0..MaxArticles}

Responses ==
    {[outcome |-> "raise", status_code |-> 0, body |-> "none", articles |-> <<>>],
     [outcome |-> "response", status_code |-> 500, body |-> "articles", articles |-> <<>>],
     [outcome |-> "response", status_code |-> StatusOk, body |-> "malformed", articles |-> <<>>],
     [outcome |-> "response", status_code |-> StatusOk, body |-> "null_articles", articles |-> <<>>],
     [outcome |-> "response", status_code |-> StatusOk, body |-> "no_articles_key", articles |-> <<>>]}
    \cup {[outcome |-> "response", status_code |-> StatusOk, body |-> "articles", articles |-> a]
          : a \in ArticleLists}

Polarities == {Num(-1), Zero, Norm(1, 2), One}

----------------------------------------------------------------------------
(* The run of evaluate_security(ticker)                                    *)

fcfLocals == <<income_stmt, cashflow_stmt, components>>
dcfArgs == <<years, discount_rate, growth_rate>>
dcfLocals == <<discounted_fcfs, discounted_terminal_value, intrinsic_value,
               info, market_cap, upside>>
newsVars == <<response, news, sentiment_score, adjusted_upside>>
sgVars == <<sg_statement, sg_labels, sg_col, sg_result>>

InitCommon ==
    /\ income_stmt = NoStatement /\ cashflow_stmt = NoStatement
    /\ components = NoComponents
    /\ discounted_fcfs = <<>> /\ discounted_terminal_value = None
    /\ intrinsic_value = None
    /\ info = NoInfo /\ market_cap = None /\ upside = None
    /\ dcf_result = "unset"
    /\ response = NoResponse /\ news = <<>>
    /\ sentiment_score = None /\ adjusted_upside = None
    /\ trace = <<>> /\ fault = "none"

InitNoSafeGet ==
    /\ sg_statement = NoStatement /\ sg_labels = <<>>
    /\ sg_col = Latest /\ sg_result = None

Init ==
    /\ pc = "evaluate_security"
    /\ NEWS_API_KEY \in {NoKey, "key"}
    /\ years = DefaultYears
    /\ discount_rate = DefaultDiscountRate
    /\ growth_rate = DefaultGrowthRate
    /\ fcf = None
    /\ InitCommon
    /\ InitNoSafeGet

\* lines 96-99: the header, then the call of discounted_cash_flow_analysis,
\* which calls calculate_fcf first (line 47)
Evaluate ==
    /\ pc = "evaluate_security"
    /\ pc' = "calculate_fcf"
    /\ trace' = Append(trace, "header")
    /\ UNCHANGED <<NEWS_API_KEY, dcfArgs, fcfLocals, fcf, dcfLocals, dcf_result,
                   newsVars, fault, sgVars>>

\* lines 19-22: the two statements are fetched, or the fetch raises and the
\* handler of lines 41-43 returns None
FetchStatements ==
    /\ pc = "calculate_fcf"
    /\ \/ /\ \E cs \in ColumnChoices :
               /\ income_stmt' \in StatementsOver(cs[1], IncomeLabels, IncomeValues)
               /\ cashflow_stmt' \in StatementsOver(cs[2], CashflowLabels, CashflowValues)
          /\ pc' = "fcf_lookup"
          /\ trace' = Append(trace, "fetch_statements")
          /\ UNCHANGED <<components, fcf>>
       \/ /\ pc' = "dcf_guard"
          /\ fcf' = None
          /\ trace' = Append2(trace, "fetch_statements", "fcf_error")
          /\ UNCHANGED <<income_stmt, cashflow_stmt, components>>
    /\ UNCHANGED <<NEWS_API_KEY, dcfArgs, dcfLocals, dcf_result, newsVars, fault, sgVars>>

\* lines 23-37: latest column, four lookups, the sum and the breakdown; an
\* exception goes to the handler of lines 41-43
ComputeFcf ==
    /\ pc = "fcf_lookup"
    /\ LET c == fcf_components(income_stmt, cashflow_stmt)
       IN  IF c.raised
           THEN /\ pc' = "dcf_guard"
                /\ fcf' = None
                /\ income_stmt' = NoStatement /\ cashflow_stmt' = NoStatement
                /\ components' = NoComponents
                /\ trace' = Append(trace, "fcf_error")
           ELSE /\ pc' = "fcf_return"
                /\ components' = c
                /\ trace' = Append(trace, "fcf_breakdown")
                /\ UNCHANGED <<income_stmt, cashflow_stmt, fcf>>
    /\ UNCHANGED <<NEWS_API_KEY, dcfArgs, dcfLocals, dcf_result, newsVars, fault, sgVars>>

\* line 39: return fcf; the locals of calculate_fcf are gone
ReturnFcf ==
    /\ pc = "fcf_return"
    /\ pc' = "dcf_guard"
    /\ fcf' = components.fcf
    /\ income_stmt' = NoStatement /\ cashflow_stmt' = NoStatement
    /\ components' = NoComponents
    /\ UNCHANGED <<NEWS_API_KEY, dcfArgs, dcfLocals, dcf_result, newsVars, trace,
                   fault, sgVars>>

\* lines 48-49
DcfGuard ==
    /\ pc = "dcf_guard"
    /\ IF fcf_rejected(fcf)
       THEN /\ pc' = "dcf_return"
            /\ dcf_result' = "None"
       ELSE /\ pc' = "dcf_project"
            /\ UNCHANGED dcf_result
    /\ UNCHANGED <<NEWS_API_KEY, dcfArgs, fcfLocals, fcf, dcfLocals, newsVars,
                   trace, fault, sgVars>>

\* lines 51-57.  A zero divisor raises ZeroDivisionError when the cash flow
\* is a Python float and gives an IEEE infinity or NaN when it is a
\* numpy.float64; which of the two the statement table holds is the data
\* source's choice.
DcfCompute ==
    /\ pc = "dcf_project"
    /\ \/ /\ ZeroDivisor(discount_rate, growth_rate)
          /\ pc' = "crashed"
          /\ fault' = "ZeroDivisionError"
          /\ trace' = Append(trace, "project")
          /\ UNCHANGED <<discounted_fcfs, discounted_terminal_value, intrinsic_value>>
       \/ /\ LET v == dcf_values(fcf, years, discount_rate, growth_rate)
             IN  /\ discounted_fcfs' = v.discounted_fcfs
                 /\ discounted_terminal_value' = v.discounted_terminal_value
                 /\ intrinsic_value' = v.intrinsic_value
          /\ pc' = "market_cap"
          /\ trace' = Append(Append2(trace, "project", "discount"), "terminal")
          /\ UNCHANGED fault
    /\ UNCHANGED <<NEWS_API_KEY, dcfArgs, fcfLocals, fcf, info, market_cap, upside,
                   dcf_result, newsVars, sgVars>>

\* lines 59-64: company.info, .get('marketCap', 0), the guarded ratio and
\* the returned tuple.  Nothing catches a fault of the fetch, and None > 0
\* is a TypeError.
FetchMarketCap ==
    /\ pc = "market_cap"
    /\ \E i \in Infos :
          /\ info' = i
          /\ IF i.outcome = "raise"
             THEN /\ pc' = "crashed"
                  /\ fault' = "FetchError"
                  /\ UNCHANGED <<market_cap, upside, dcf_result>>
             ELSE LET mc == IF i.has THEN i.marketCap ELSE Zero
                  IN  /\ market_cap' = mc
                      /\ IF IsNone(mc)
                         THEN /\ pc' = "crashed"
                              /\ fault' = "TypeError"
                              /\ UNCHANGED <<upside, dcf_result>>
                         ELSE /\ pc' = "dcf_return"
                              /\ upside' = upside_of(intrinsic_value, mc)
                              /\ dcf_result' = "tuple"
                              /\ UNCHANGED fault
    /\ trace' = Append(trace, "fetch_market_cap")
    /\ UNCHANGED <<NEWS_API_KEY, dcfArgs, fcfLocals, fcf, discounted_fcfs,
                   discounted_terminal_value, intrinsic_value, newsVars, sgVars>>

\* lines 101-109
EvaluateCheck ==
    /\ pc = "dcf_return"
    /\ IF dcf_result = "None"
       THEN /\ pc' = "done"
            /\ trace' = Append(trace, "dcf_failed")
       ELSE /\ pc' = "get_security_news"
            /\ trace' = Append(trace, "valuation_report")
    /\ UNCHANGED <<NEWS_API_KEY, dcfArgs, fcfLocals, fcf, dcfLocals, dcf_result,
                   newsVars, fault, sgVars>>

\* lines 67-85 and the assignment of line 111
GetSecurityNews ==
    /\ pc = "get_security_news"
    /\ pc' = "analyze_sentiment"
    /\ IF news_disabled(NEWS_API_KEY)
       THEN /\ news' = <<>>
            /\ trace' = Append(trace, "news_skipped")
            /\ UNCHANGED response
       ELSE /\ response' \in Responses
            /\ news' = news_of_response(response')
            /\ trace' = Append(trace, "news_request")
    /\ UNCHANGED <<NEWS_API_KEY, dcfArgs, fcfLocals, fcf, dcfLocals, dcf_result,
                   sentiment_score, adjusted_upside, fault, sgVars>>

\* lines 87-92 and the assignment of line 112
AnalyzeSentiment ==
    /\ pc = "analyze_sentiment"
    /\ pc' = "adjust"
    /\ \E s \in [1..Len(news) -> Polarities] :
          sentiment_score' = analyze_sentiment(news, s)
    /\ trace' = Append(trace, "sentiment")
    /\ UNCHANGED <<NEWS_API_KEY, dcfArgs, fcfLocals, fcf, dcfLocals, dcf_result,
                   response, news, adjusted_upside, fault, sgVars>>

\* lines 113-116
AdjustUpside ==
    /\ pc = "adjust"
    /\ pc' = "render"
    /\ adjusted_upside' = adjust(upside, sentiment_score)
    /\ trace' = Append(trace, "adjusted_report")
    /\ UNCHANGED <<NEWS_API_KEY, dcfArgs, fcfLocals, fcf, dcfLocals, dcf_result,
                   response, news, sentiment_score, fault, sgVars>>

\* lines 119-128
Render ==
    /\ pc = "render"
    /\ pc' = "done"
    /\ trace' = Append(trace, "chart")
    /\ UNCHANGED <<NEWS_API_KEY, dcfArgs, fcfLocals, fcf, dcfLocals, dcf_result,
                   newsVars, fault, sgVars>>

Next ==
    \/ Evaluate
    \/ FetchStatements
    \/ ComputeFcf
    \/ ReturnFcf
    \/ DcfGuard
    \/ DcfCompute
    \/ FetchMarketCap
    \/ EvaluateCheck
    \/ GetSecurityNews
    \/ AnalyzeSentiment
    \/ AdjustUpside
    \/ Render

Spec == Init /\ [][Next]_vars

----------------------------------------------------------------------------
(* discounted_cash_flow_analysis called with its own arguments, from the   *)
(* point where calculate_fcf has returned (line 47).  The cash flow is any *)
(* value calculate_fcf can return.                                         *)

RateSteps == 3

Rates == {Norm(k, 2) : k \in -RateSteps..RateSteps}

FcfInputs == {None, NaN, Num(-1), Zero, Num(1), Num(3)}

InitValuate ==
    /\ pc = "dcf_guard"
    /\ NEWS_API_KEY = NoKey
    /\ years \in 1..MaxYears
    /\ discount_rate \in Rates
    /\ growth_rate \in Rates
    /\ fcf \in FcfInputs
    /\ InitCommon
    /\ InitNoSafeGet

NextValuate ==
    \/ DcfGuard
    \/ DcfCompute
    \/ FetchMarketCap

SpecValuate == InitValuate /\ [][NextValuate]_vars

----------------------------------------------------------------------------
(* safe_get called on any small statement table                            *)

TableLabels == {"Operating Income", "EBIT", "Net Income"}

TableValues == {Num(1), Num(2)}

Tables ==
    UNION {UNION {{[columns |-> cs, index |-> ix, cell |-> c]
                   : c \in [ix \X Range(cs) -> TableValues]}
                  : ix \in SUBSET TableLabels}
           : cs \in {<<Latest>>, <<Latest, Previous>>}}

LabelLists == UNION {[1..n -> TableLabels] : n \in 0..MaxLabels}

InitSafeGet ==
    /\ pc = "safe_get"
    /\ NEWS_API_KEY = NoKey
    /\ years = DefaultYears
    /\ discount_rate = DefaultDiscountRate
    /\ growth_rate = DefaultGrowthRate
    /\ fcf = None
    /\ InitCommon
    /\ sg_statement \in Tables
    /\ sg_labels \in LabelLists
    /\ sg_col \in {Latest, Previous}
    /\ sg_result = None

\* lines 12-16
SafeGetCall ==
    /\ pc = "safe_get"
    /\ pc' = "safe_get_done"
    /\ sg_result' = safe_get(sg_statement, sg_labels, sg_col)
    /\ UNCHANGED <<NEWS_API_KEY, dcfArgs, fcfLocals, fcf, dcfLocals, dcf_result,
                   newsVars, trace, fault, sg_statement, sg_labels, sg_col>>

SpecSafeGet == InitSafeGet /\ [][SafeGetCall]_vars

----------------------------------------------------------------------------
(* Properties                                                              *)

Happened(e) == e \in Range(trace)

Ended == pc \in {"done", "crashed"}

\* the steps of the run after the valuation, in the order they happened
LaterSteps ==
    SelectSeq(trace, LAMBDA e : e \in {"news_skipped", "news_request", "sentiment",
                                       "adjusted_report", "chart"})

\* the reason of an early exit, as the printed diagnostics tell it
ExitReason ==
    IF ~Happened("dcf_failed") THEN "none"
    ELSE IF Happened("fcf_error") THEN "DataUnavailable"
    ELSE "InvalidFCF"

\* C1: no data-fetch fault of the market data collaborator (statement
\* fetch, row or period lookup, market-capitalization fetch) ends a run of
\* evaluate as an uncaught fault; each is turned into an absent result.
C1_NoFetchFaultEscapes ==
    /\ ~(pc = "crashed" /\ fault = "FetchError")
    /\ (Ended /\ Happened("fcf_error")) => (pc = "done" /\ IsNone(fcf))

\* C2: a run of evaluate ends in EarlyExit(DataUnavailable) when FCF cannot
\* be computed, in EarlyExit(InvalidFCF) when FCF is computed but not > 0,
\* and otherwise runs news fetch, sentiment, adjusted upside and chart in
\* that order, each once, and ends; an early exit runs none of them.
C2_LinearStateMachine ==
    Ended =>
        /\ IsNone(fcf) =>
               pc = "done" /\ ExitReason = "DataUnavailable" /\ LaterSteps = <<>>
        /\ (~IsNone(fcf) /\ ~RLt(Zero, fcf)) =>
               pc = "done" /\ ExitReason = "InvalidFCF" /\ LaterSteps = <<>>
        /\ (~IsNone(fcf) /\ RLt(Zero, fcf)) =>
               /\ pc = "done" /\ ExitReason = "none"
               /\ Len(LaterSteps) = 4
               /\ LaterSteps[1] \in {"news_skipped", "news_request"}
               /\ LaterSteps[2] = "sentiment"
               /\ LaterSteps[3] = "adjusted_report"
               /\ LaterSteps[4] = "chart"

\* C3: with discountRate equal to growthRate and FCF > 0 the valuation ends
\* in an explicit validation error: it returns no result and raises no
\* arithmetic fault.
C3_EqualRatesRejected ==
    (/\ discount_rate = growth_rate
     /\ ~IsNone(fcf) /\ RLt(Zero, fcf)
     /\ pc \notin {"dcf_guard", "dcf_project"})
        => (pc = "crashed" /\ fault = "ValueError")

\* C4: an FCF that is absent or <= 0 makes the valuation return Absent
\* without projecting, discounting, computing a terminal value or fetching
\* the market capitalization; a result is returned only when FCF > 0.
C4_NonPositiveFcfAbsent ==
    /\ (pc # "dcf_guard" /\ (IsNone(fcf) \/ RLe(fcf, Zero))) =>
           /\ dcf_result = "None"
           /\ ~Happened("project") /\ ~Happened("discount")
           /\ ~Happened("terminal") /\ ~Happened("fetch_market_cap")
    /\ dcf_result = "tuple" => (~IsNone(fcf) /\ RLt(Zero, fcf))

Min(S) == CHOOSE x \in S : \A y \in S : x <= y

PresentAt(statement, labels) == {i \in DOMAIN labels : labels[i] \in statement.index}

\* C5: resolveField returns the value stored for the period under the first
\* candidate label present in the row index, whatever later candidates are
\* present, returns 0 when no candidate is present, and raises nothing for
\* missing labels.
C5_FirstPresentLabel ==
    pc = "safe_get_done" =>
        LET present == PresentAt(sg_statement, sg_labels)
        IN  /\ present = {} => sg_result = Zero
            /\ (present # {} /\ sg_col \in Range(sg_statement.columns)) =>
                   sg_result = sg_statement.cell[<<sg_labels[Min(present)], sg_col>>]
            /\ IsRaise(sg_result) =>
                   (present # {} /\ sg_col \notin Range(sg_statement.columns))

C5_Witness ==
    /\ pc = "safe_get_done"
    /\ Len(sg_labels) = 2
    /\ sg_labels[1] # sg_labels[2]
    /\ Range(sg_labels) \subseteq sg_statement.index
    /\ sg_col \in Range(sg_statement.columns)
    /\ sg_statement.cell[<<sg_labels[1], sg_col>>] # sg_statement.cell[<<sg_labels[2], sg_col>>]
    /\ sg_result = sg_statement.cell[<<sg_labels[1], sg_col>>]

\* C6: with no news credential the news fetch returns an empty list
\* without a network call, the sentiment score is exactly 0, and the run
\* goes on to the report.
C6_NoCredentialNoCall ==
    NEWS_API_KEY = NoKey =>
        /\ ~Happened("news_request")
        /\ response = NoResponse
        /\ news = <<>>
        /\ ~IsNone(sentiment_score) => sentiment_score = Zero
        /\ Happened("news_skipped") => pc # "crashed"
        /\ (Happened("news_skipped") /\ pc = "done") =>
               (Happened("adjusted_report") /\ Happened("chart"))

C6_Witness ==
    /\ NEWS_API_KEY = NoKey
    /\ pc = "done"
    /\ Happened("news_skipped")
    /\ sentiment_score = Zero
    /\ Happened("chart")

\* the request raised, the status is not 200, the body is malformed, or an
\* article among those taken has no title or a null description
ErrorResponse(resp) ==
    \/ resp.outcome = "raise"
    \/ /\ resp.outcome = "response"
       /\ \/ resp.status_code # StatusOk
          \/ resp.body \in {"malformed", "null_articles"}
          \/ /\ resp.body = "articles"
             /\ \E i \in DOMAIN resp.articles :
                   /\ i <= MaxTaken
                   /\ resp.articles[i].title = "absent" \/ resp.articles[i].description = "null"

\* C7: with a credential, a transport or API error of the news fetch gives
\* an empty article list; the run is not aborted, the sentiment score is
\* exactly 0 and the adjusted upside equals the raw upside.
C7_NewsErrorDegrades ==
    (NEWS_API_KEY # NoKey /\ ErrorResponse(response)) =>
        /\ news = <<>>
        /\ pc # "crashed"
        /\ ~IsNone(sentiment_score) => sentiment_score = Zero
        /\ ~IsNone(adjusted_upside) => adjusted_upside = upside
        /\ pc = "done" => (Happened("adjusted_report") /\ Happened("chart"))

C7_Witness ==
    /\ NEWS_API_KEY # NoKey
    /\ pc = "done"
    /\ response.body = "articles"
    /\ Len(response.articles) = 2
    /\ response.articles[1].title # "absent"
    /\ response.articles[1].description = "Strong quarter"
    /\ response.articles[2].title = "absent"
    /\ sentiment_score = Zero
    /\ upside # Zero
    /\ adjusted_upside = upside

\* C8: once FCF > 0, for every market capitalization the collaborator
\* yields (positive, zero, negative, missing entry, entry with no value)
\* the valuation returns a result whose upside is
\* (intrinsic - marketCap) / marketCap * 100 when marketCap > 0 and 0
\* otherwise.
C8_UpsideForEveryMarketCap ==
    (info.outcome = "dict" /\ ~IsNone(fcf) /\ RLt(Zero, fcf)) =>
        /\ dcf_result = "tuple"
        /\ upside =
              IF info.has /\ ~IsNone(info.marketCap) /\ RLt(Zero, info.marketCap)
              THEN RMul(RDiv(RSub(intrinsic_value, info.marketCap), info.marketCap),
                        Num(100))
              ELSE Zero

\* a field of the breakdown: the cell of the first label present, else 0
Field(statement, labels, col) ==
    LET present == PresentAt(statement, labels)
    IN  IF present = {} THEN Zero ELSE statement.cell[<<labels[Min(present)], col>>]

\* a lookup of calculate_fcf raises: no period column at all, or a
\* cash-flow row is found and the latest period is not a column of it
LookupRaises(income, cashflow) ==
    \/ income.columns = <<>>
    \/ /\ income.columns[1] \notin Range(cashflow.columns)
       /\ CashflowLabels \cap cashflow.index # {}

\* C9 as stated: estimateFCF returns ebit + depreciation - capex -
\* workingCapitalChange only when an EBIT label ("Operating Income" or
\* "EBIT") is present in the income statement; with neither present it
\* reports DataUnavailable; the other three fields default to zero.
C9_FcfOnlyWithEbit ==
    pc = "fcf_return" =>
        LET col == income_stmt.columns[1]
            d == Field(cashflow_stmt, DepreciationLabels, col)
            c == Field(cashflow_stmt, CapexLabels, col)
            w == Field(cashflow_stmt, WcLabels, col)
        IN  /\ IncomeLabels \cap income_stmt.index # {}
            /\ components.fcf = RSub(RSub(RAdd(components.ebit, d), c), w)

\* C9 as amended: with the statements fetched, estimateFCF returns
\* ebit + depreciation - capex - workingCapitalChange whenever no lookup
\* raises, each of the four fields, EBIT included, being the cell of its
\* first label present and zero when none is present; it reports
\* DataUnavailable exactly when a lookup raises.
C9_EveryFieldDefaultsToZero ==
    [][pc = "fcf_lookup" =>
          IF LookupRaises(income_stmt, cashflow_stmt)
          THEN pc' = "dcf_guard" /\ IsNone(fcf') /\ trace' = Append(trace, "fcf_error")
          ELSE LET col == income_stmt.columns[1]
                   e == Field(income_stmt, EbitLabels, col)
                   d == Field(cashflow_stmt, DepreciationLabels, col)
                   c == Field(cashflow_stmt, CapexLabels, col)
                   w == Field(cashflow_stmt, WcLabels, col)
               IN  /\ pc' = "fcf_return"
                   /\ components'.ebit = e
                   /\ components'.depreciation = d
                   /\ components'.capex = c
                   /\ components'.wc_change = w
                   /\ components'.fcf = RSub(RSub(RAdd(e, d), c), w)]_vars

C9_Witness ==
    /\ pc = "fcf_return"
    /\ IncomeLabels \cap income_stmt.index = {}
    /\ "Capital Expenditures" \in cashflow_stmt.index
    /\ components.ebit = Zero
    /\ components.capex = One
    /\ components.fcf = Num(-1)

\* the intrinsic value of lines 51-57 at other rates, same cash flow and horizon
IntrinsicAt(r, g) == dcf_values(fcf, years, r, g).intrinsic_value

\* C10 as stated: for FCF > 0, years >= 1 and growthRate < discountRate
\* the intrinsic value is strictly positive, increasing in growthRate and
\* decreasing in discountRate.
C10_PositiveAndMonotone ==
    (/\ ~IsNone(intrinsic_value)
     /\ ~IsNone(fcf) /\ RLt(Zero, fcf)
     /\ RLt(growth_rate, discount_rate))
        => /\ RLt(Zero, intrinsic_value)
           /\ \A g2 \in Rates :
                 (RLt(growth_rate, g2) /\ RLt(g2, discount_rate)) =>
                     RLe(intrinsic_value, IntrinsicAt(discount_rate, g2))
           /\ \A r2 \in Rates :
                 RLt(discount_rate, r2) =>
                     RLe(IntrinsicAt(r2, growth_rate), intrinsic_value)

\* C10 as amended: for FCF > 0, years >= 1 and
\* -1 < growthRate < discountRate the intrinsic value is strictly
\* positive, strictly increasing in growthRate and strictly decreasing in
\* discountRate (in exact arithmetic).
C10_PositiveAndMonotoneAboveMinusOne ==
    (/\ ~IsNone(intrinsic_value)
     /\ ~IsNone(fcf) /\ RLt(Zero, fcf)
     /\ RLt(Num(-1), growth_rate)
     /\ RLt(growth_rate, discount_rate))
        => /\ RLt(Zero, intrinsic_value)
           /\ \A g2 \in Rates :
                 (RLt(growth_rate, g2) /\ RLt(g2, discount_rate)) =>
                     RLt(intrinsic_value, IntrinsicAt(discount_rate, g2))
           /\ \A r2 \in Rates :
                 RLt(discount_rate, r2) =>
                     RLt(IntrinsicAt(r2, growth_rate), intrinsic_value)

C10_Witness ==
    /\ pc = "dcf_return"
    /\ dcf_result = "tuple"
    /\ fcf = Num(3)
    /\ years = 3
    /\ growth_rate = Norm(-1, 2)
    /\ discount_rate = Norm(1, 2)
    /\ Len(discounted_fcfs) = 3
    /\ intrinsic_value = Norm(3, 2)

====
